---- MODULE Spec2Model ----
(***************************************************************************)
(* A model of wpschema/_waveplot.py: the WavePlot client entity, its       *)
(* generation from a local audio file through libwaveplot, the derived     *)
(* preview / thumbnail / hashes, and the get / upload / link operations    *)
(* against the registry at waveplot.net.                                   *)
(*                                                                         *)
(* Python's None is the empty tuple and a value v that is set is <<v>>,    *)
(* so that every field has one TLA+ type.  A JSON object, and a dict, maps *)
(* each key to <<>> when the key is absent and to <<v>> when it is there.  *)
(***************************************************************************)
EXTENDS Integers, Sequences, FiniteSets, TLC

VARIABLES
    wp,      \* the fields of one WavePlot instance (__init__, lines 101-121)
    held,    \* native structures allocated and not yet freed, per kind
    pc,      \* position of the running generate call, "idle" between calls
    loc,     \* the locals of the running generate call
    lib,     \* the version string the loaded libwaveplot reports
    pre,     \* the fields of the instance when the last call began
    last,    \* the last call: its inputs, what it sent, how it ended
    decoded_full, \* the full sequence the first successful generate set
    calls,   \* number of calls begun
    other,   \* the fields of a second WavePlot instance of the same caller
    registry, \* what the registry at waveplot.net has stored
    uploads  \* the uploads that reached the registry, in order

vars == <<wp, held, pc, loc, lib, pre, last, decoded_full, calls,
          other, registry, uploads>>

\* a call on one instance that is answered without the registry's store
Alone == UNCHANGED <<other, registry, uploads>>

----------------------------------------------------------------------------
(* Bounds of the model *)

MaxCalls == 3
MaxLen == 2

----------------------------------------------------------------------------
(* Values *)

None == <<>>
Some(v) == <<v>>
IsSet(x) == x # <<>>

THUMB_IMAGE_WIDTH == 50
THUMB_IMAGE_HEIGHT == 21
PREVIEW_IMAGE_WIDTH == 400
PREVIEW_IMAGE_HEIGHT == 151

WAVEPLOT_VERSIONS == {"CITRUS", "DAMSON"}

\* what lib.version() may report: a supported tag, or the tag of a later build
LibVersions == {"DAMSON", "ELDER"}

\* the fields set by __init__
NewWavePlot ==
    [gid |-> None, duration |-> None, dr_level |-> None, source_type |-> None,
     sample_rate |-> None, bit_depth |-> None, bit_rate |-> None,
     num_channels |-> None, image_hash |-> None, full |-> None,
     preview |-> None, thumbnail |-> None, sonic_hash |-> None,
     version |-> None, path |-> None]

\* _Info, as get_info fills it for the audio file of the model
Infos ==
    { [duration_secs |-> 180, num_channels |-> 2, bit_depth |-> 16,
       bit_rate |-> 900000, sample_rate |-> 44100, file_format |-> "flac"] }

\* A c_float m / 2^e of _WavePlot.values: 0.5, and the float nearest to
\* 0.005, which is 10737418 / 2^31.
Amplitudes ==
    { [m |-> 1, e |-> 1], [m |-> 10737418, e |-> 31] }

\* _DR.rating after finish_dr
Ratings == {6}

\* results of get_samples
PullResults == {-1, 0, 1, 2}

\* arguments of generate: a path, relative or absolute
AudioPaths == [abs : BOOLEAN, name : {"a.flac"}]

\* os.path.abspath(audio_path).encode("utf-8")
Abspath(p) == [p EXCEPT !.abs = TRUE]

RECURSIVE Pow2(_)
Pow2(n) == IF n = 0 THEN 1 ELSE 2 * Pow2(n - 1)

\* the scaling with rounding to the nearest integer in place of truncation
ToByte_Mutant(v) ==
    IF v.e >= 3 THEN (50 * v.m + Pow2(v.e - 3)) \div Pow2(v.e - 2)
    ELSE (400 * v.m + Pow2(v.e)) \div Pow2(v.e + 1)

\* int(200.0 * v) for the float v = m / 2^e; 200 / 2^e = 25 / 2^(e-3)
ToByte(v) ==
    IF v.e >= 3 THEN (25 * v.m) \div Pow2(v.e - 3)
    ELSE (200 * v.m) \div Pow2(v.e)

\* bytes(bytearray(int(200.0*waveplot.values[x]) for x in range(length)))
FullOf(values) == [x \in 1..Len(values) |-> ToByte(values[x])]

\* bytearray(...) raises ValueError for an item outside range(256)
ByteArrayAccepts(values) ==
    \A x \in 1..Len(values) : ToByte(values[x]) \in 0..255

\* the locals of generate: info (i_ptr), values (w_ptr), decoded, and the
\* numbers of positive get_samples results, of update_waveplot calls and of
\* update_dr calls so far
NoLocals == [info |-> None, values |-> <<>>, dr_blocks |-> 0, decoded |-> 0,
             w_updates |-> 0, blocks |-> 0]

NoHeld == [file |-> 0, info |-> 0, waveplot |-> 0, dr |-> 0, audio |-> 0]

HeldTotal(h) == h.file + h.info + h.waveplot + h.dr + h.audio

\* A call: the operation, the exception it raised ("none" when it returned,
\* "running" until it ends), the lines printed, the requests sent, the
\* response's status and body, the argument before and after the call, the
\* value returned, the pull result with which generate went on to
\* finish_waveplot, the number of native structures held when it began, and
\* the values of w_ptr that generate read at lines 210-211.
NoCall == [op |-> "new", raised |-> "none", printed |-> None, sent |-> <<>>,
           status |-> None, body |-> None, arg |-> None, argAfter |-> None,
           ret |-> None, finish |-> None, held0 |-> 0, native |-> None]

Began(op, h) == [NoCall EXCEPT !.op = op, !.held0 = HeldTotal(h)]

Init ==
    /\ wp = NewWavePlot
    /\ held = NoHeld
    /\ pc = "idle"
    /\ loc = NoLocals
    /\ lib \in LibVersions
    /\ pre = NewWavePlot
    /\ last = NoCall
    /\ decoded_full = None
    /\ calls = 0
    /\ other = NewWavePlot
    /\ registry = <<>>
    /\ uploads = <<>>

----------------------------------------------------------------------------
(* generate, lines 155-222 *)

\* lines 159-167: the four allocations, the isfile test, self.path
GenerateBegin(audio_path, isfile) ==
    /\ pc = "idle"
    /\ calls < MaxCalls
    /\ calls' = calls + 1
    /\ pre' = wp
    /\ held' = [held EXCEPT !.file = @ + 1, !.info = @ + 1,
                            !.waveplot = @ + 1, !.dr = @ + 1]
    /\ loc' = NoLocals
    /\ IF ~isfile
       THEN /\ last' = [Began("generate", held) EXCEPT !.raised = "IOError"]
            /\ pc' = "idle"
            /\ wp' = wp
       ELSE /\ last' = [Began("generate", held) EXCEPT !.raised = "running"]
            /\ wp' = [wp EXCEPT !.path = Some(Abspath(audio_path))]
            /\ pc' = "load"
    /\ UNCHANGED <<lib, decoded_full>>
    /\ Alone

\* lines 169-175: load_file, get_info, init_dr
GenerateLoad(result, info) ==
    /\ pc = "load"
    /\ IF result < 0
       THEN /\ last' = [last EXCEPT !.raised = "IOError"]
            /\ pc' = "idle"
            /\ loc' = NoLocals
       ELSE /\ loc' = [loc EXCEPT !.info = Some(info)]
            /\ pc' = "alloc"
            /\ last' = last
    /\ UNCHANGED <<wp, held, lib, pre, decoded_full, calls>>
    /\ Alone

\* lines 177-180: alloc_audio_samples and its null test
GenerateAllocSamples(a_ok) ==
    /\ pc = "alloc"
    /\ IF ~a_ok
       THEN /\ last' = [last EXCEPT !.raised = "MemoryError"]
            /\ pc' = "idle"
            /\ loc' = NoLocals
            /\ held' = held
       ELSE /\ held' = [held EXCEPT !.audio = @ + 1]
            /\ pc' = "pull"
            /\ UNCHANGED <<last, loc>>
    /\ UNCHANGED <<wp, lib, pre, decoded_full, calls>>
    /\ Alone

\* the tests of the loop with a zero-length block taken for a block
AfterPull_Mutant(decoded) ==
    IF decoded >= 0 THEN "update_waveplot" ELSE "finish"

\* lines 183-184: while decoded >= 0, if decoded > 0
AfterPull(decoded) ==
    IF decoded >= 0
    THEN IF decoded > 0 THEN "update_waveplot" ELSE "pull"
    ELSE "finish"

\* lines 182-184 and 187: get_samples, then the tests of the while loop
GeneratePull(decoded) ==
    /\ pc = "pull"
    /\ decoded > 0 => Len(loc.values) < MaxLen
    /\ loc' = [loc EXCEPT !.decoded = decoded,
                          !.blocks = IF decoded > 0 THEN @ + 1 ELSE @]
    /\ pc' = AfterPull(decoded)
    /\ UNCHANGED <<wp, held, lib, pre, last, decoded_full, calls>>
    /\ Alone

\* line 185: update_waveplot puts the block's amplitude into w_ptr
GenerateUpdateWaveplot(v) ==
    /\ pc = "update_waveplot"
    /\ loc' = [loc EXCEPT !.values = Append(@, v), !.w_updates = @ + 1]
    /\ pc' = "update_dr"
    /\ UNCHANGED <<wp, held, lib, pre, last, decoded_full, calls>>
    /\ Alone

\* line 186: update_dr feeds the same block to d_ptr
GenerateUpdateDr ==
    /\ pc = "update_dr"
    /\ loc' = [loc EXCEPT !.dr_blocks = @ + 1]
    /\ pc' = "pull"
    /\ UNCHANGED <<wp, held, lib, pre, last, decoded_full, calls>>
    /\ Alone

\* lines 197-209: the instance variables set before self.full
PopulatedBeforeFull(w, info, rating) ==
    [w EXCEPT !.gid = None,
              !.duration = Some(info.duration_secs),
              !.dr_level = Some(rating),
              !.source_type = Some(info.file_format),
              !.sample_rate = Some(info.sample_rate),
              !.bit_depth = Some(info.bit_depth),
              !.bit_rate = Some(info.bit_rate),
              !.num_channels = Some(info.num_channels),
              !.image_hash = None]

\* lines 197-216: the instance variables set from the native structures
Populated(w, info, rating, values, version) ==
    [w EXCEPT !.gid = None,
              !.duration = Some(info.duration_secs),
              !.dr_level = Some(rating),
              !.source_type = Some(info.file_format),
              !.sample_rate = Some(info.sample_rate),
              !.bit_depth = Some(info.bit_depth),
              !.bit_rate = Some(info.bit_rate),
              !.num_channels = Some(info.num_channels),
              !.image_hash = None,
              !.full = Some(FullOf(values)),
              !.preview = None,
              !.thumbnail = None,
              !.sonic_hash = None,
              !.version = Some(version)]

\* lines 218-222: the five frees at the end of generate
FreeAll(h) == [h EXCEPT !.dr = @ - 1, !.waveplot = @ - 1, !.audio = @ - 1,
                        !.info = @ - 1, !.file = @ - 1]

\* lines 189-222: finish_waveplot, finish_dr, the fields, the frees; the
\* bytearray of line 210 raises when a scaled value is no byte
GenerateFinish(rating) ==
    /\ pc = "finish"
    /\ IF ByteArrayAccepts(loc.values)
       THEN /\ wp' = Populated(wp, loc.info[1], rating, loc.values, lib)
            /\ held' = FreeAll(held)
            /\ last' = [last EXCEPT !.raised = "none",
                                    !.finish = Some(loc.decoded),
                                    !.native = Some(loc.values)]
            /\ decoded_full' = IF IsSet(decoded_full) THEN decoded_full
                               ELSE Some(FullOf(loc.values))
       ELSE /\ wp' = PopulatedBeforeFull(wp, loc.info[1], rating)
            /\ held' = held
            /\ last' = [last EXCEPT !.raised = "ValueError",
                                    !.finish = Some(loc.decoded),
                                    !.native = Some(loc.values)]
            /\ decoded_full' = decoded_full
    /\ loc' = NoLocals
    /\ pc' = "idle"
    /\ UNCHANGED <<lib, pre, calls>>
    /\ Alone

Generate ==
    \/ \E p \in AudioPaths, isfile \in BOOLEAN : GenerateBegin(p, isfile)
    \/ \E r \in {-1, 0}, info \in Infos : GenerateLoad(r, info)
    \/ \E a_ok \in BOOLEAN : GenerateAllocSamples(a_ok)
    \/ \E d \in PullResults : GeneratePull(d)
    \/ \E v \in Amplitudes : GenerateUpdateWaveplot(v)
    \/ GenerateUpdateDr
    \/ \E r \in Ratings : GenerateFinish(r)

----------------------------------------------------------------------------
(* Encodings and the native primitives used after generation *)

\* base64.b64encode: three bytes become four sextets, 64 stands for "="
RECURSIVE B64Encode(_)
B64Encode(b) ==
    IF Len(b) = 0 THEN <<>>
    ELSE IF Len(b) = 1
    THEN <<b[1] \div 4, (b[1] % 4) * 16, 64, 64>>
    ELSE IF Len(b) = 2
    THEN <<b[1] \div 4, (b[1] % 4) * 16 + b[2] \div 16, (b[2] % 16) * 4, 64>>
    ELSE <<b[1] \div 4, (b[1] % 4) * 16 + b[2] \div 16,
           (b[2] % 16) * 4 + b[3] \div 64, b[3] % 64>>
         \o B64Encode(SubSeq(b, 4, Len(b)))

\* the padding test of base64.b64decode ("Incorrect padding")
B64Valid(t) ==
    /\ Len(t) % 4 = 0
    /\ \A i \in 1..Len(t) : t[i] = 64 => (i > Len(t) - 2 /\ t[Len(t)] = 64)

\* a decoder that drops the last byte of a padded group
RECURSIVE B64Decode_Mutant(_)
B64Decode_Mutant(t) ==
    IF Len(t) = 0 THEN <<>>
    ELSE LET q == SubSeq(t, 1, 4)
             rest == B64Decode_Mutant(SubSeq(t, 5, Len(t)))
             b1 == q[1] * 4 + q[2] \div 16
             b2 == (q[2] % 16) * 16 + q[3] \div 4
             b3 == (q[3] % 4) * 64 + q[4]
         IN  IF q[3] = 64 THEN rest
             ELSE IF q[4] = 64 THEN <<b1>> \o rest
             ELSE <<b1, b2, b3>> \o rest

\* base64.b64decode of a text that passes the padding test
RECURSIVE B64Decode(_)
B64Decode(t) ==
    IF Len(t) = 0 THEN <<>>
    ELSE LET q == SubSeq(t, 1, 4)
             rest == B64Decode(SubSeq(t, 5, Len(t)))
             b1 == q[1] * 4 + q[2] \div 16
             b2 == (q[2] % 16) * 16 + q[3] \div 4
             b3 == (q[3] % 4) * 64 + q[4]
         IN  IF q[3] = 64 THEN <<b1>> \o rest
             ELSE IF q[4] = 64 THEN <<b1, b2>> \o rest
             ELSE <<b1, b2, b3>> \o rest

RECURSIVE SumSeq(_)
SumSeq(b) == IF Len(b) = 0 THEN 0 ELSE b[1] + SumSeq(Tail(b))

\* zlib.compress, as a stream of one stored block: the two header bytes, the
\* block header and its length, the bytes, and the low half of the Adler-32
\* sum, (1 + the sum of the bytes) mod 65521
ZlibCompress(b) ==
    LET a == (1 + SumSeq(b)) % 65521
    IN  <<120, 1, 1, Len(b)>> \o b \o <<a \div 256, a % 256>>

\* hashlib.sha1: the digest stands for the bytes it was computed from
Sha1(b) == <<160>> \o b

\* resample_waveplot(w_ptr, width, height): width values, each the value at
\* the matching place of the input scaled to the height
Resample(values, width, height) ==
    [x \in 1..width |->
        IF Len(values) = 0 THEN 0
        ELSE (values[((x - 1) * Len(values)) \div width + 1] * height) \div 200]

\* generate_sonic_hash(w_ptr): a c_uint16 computed from the values
SonicHash(values) == (SumSeq(values) * 31 + Len(values)) % 65536

----------------------------------------------------------------------------
(* The registry's responses, as the client sees them *)

Ids == {"id1", "id2"}

\* response.status_code
Statuses == {200, 300, 303, 404}

\* response.status_code of the answers to link
LinkStatuses == {200, 404}

\* wp_uuid, the identifier asked for
Wanted == {"id1"}

\* editor_key
Editors == {"ed1"}

Absent == <<>>

\* the keys upload and link read from a response
NoKeys == [gid |-> Absent, image_hash |-> Absent, thumbnail |-> Absent,
           sonic_hash |-> Absent, message |-> Absent]

\* a body response.json() cannot decode
NotJSON == [json |-> FALSE, obj |-> NoKeys]

\* the thumbnail of a response: JSON carries no bytes, so the 50 samples
\* come as text, Base64 like the data of the fetch of /full
ServerThumbnail == B64Encode([x \in 1..THUMB_IMAGE_WIDTH |-> 10])

\* the registry's answer to a registration: identifier and derived fields
Created(id) ==
    [json |-> TRUE,
     obj |-> [NoKeys EXCEPT !.gid = Some(id), !.image_hash = Some("sha1-srv"),
                            !.thumbnail = Some(ServerThumbnail),
                            !.sonic_hash = Some(4242)]]

\* an answer that carries only a message
Message(m) == [json |-> TRUE, obj |-> [NoKeys EXCEPT !.message = Some(m)]]

UploadBodies ==
    { NotJSON, Created("id1"),
      [Created("id1") EXCEPT !.obj.thumbnail = Absent],
      Message("id2"), Message("invalid key") }

LinkBodies == { NotJSON, Message("invalid key") }

\* the metadata record the registry holds for an identifier
Stored(id) ==
    [json |-> TRUE,
     obj |-> [gid |-> Some(id),
              duration |-> Some(IF id = "id1" THEN 200 ELSE 300),
              dr_level |-> Some(9),
              source_type |-> Some("ogg"),
              sample_rate |-> Some(96000),
              bit_depth |-> Some(24),
              bit_rate |-> Some(320000),
              num_channels |-> Some(6),
              image_sha1 |-> Some("sha1-srv"),
              thumbnail |-> Some(ServerThumbnail),
              sonic_hash |-> Some(4242),
              version |-> Some("CITRUS")]]

NoMeta == [k \in DOMAIN Stored("id1").obj |-> Absent]

MetaBodies ==
    { [json |-> FALSE, obj |-> NoMeta], Stored("id1"),
      [Stored("id2") EXCEPT !.obj.dr_level = Absent] }

\* the answers to the fetch of /full
DataBodies ==
    { [json |-> FALSE, data |-> Absent],
      [json |-> TRUE, data |-> Absent],
      [json |-> TRUE, data |-> Some(B64Encode(<<100>>))],
      [json |-> TRUE, data |-> Some(B64Encode(<<0, 100, 7>>))],
      [json |-> TRUE, data |-> Some(<<25, 0, 0>>)] }

\* the caller's context mappings handed to link
Context(uuid) ==
    [release |-> Some("rel1"), recording |-> Some("rec1"),
     track |-> Some("trk1"), artist_credit |-> Some(17),
     waveplot_uuid |-> uuid]

Contexts == { Context(Absent), Context(Some(Some("id1"))) }

Request(method, url, id, payload) ==
    [method |-> method, url |-> url, id |-> id, payload |-> payload]

\* print(...)
NoJSONLine == [prefix |-> "Error: No JSON object in response!", text |-> ""]
ErrorLine(obj) ==
    [prefix |-> "Error: ",
     text |-> IF obj.message = Absent THEN "Unknown" ELSE obj.message[1]]

\* Assignments self.<order[i][1]> = obj[<order[i][2]>] made in order, up to
\* the first key the object lacks, where the lookup raises KeyError.
RECURSIVE AssignFrom(_, _, _, _)
AssignFrom(w, obj, order, i) ==
    IF i > Len(order) THEN [w |-> w, raised |-> "none"]
    ELSE IF obj[order[i][2]] = Absent THEN [w |-> w, raised |-> "KeyError"]
    ELSE AssignFrom([w EXCEPT ![order[i][1]] = obj[order[i][2]]],
                    obj, order, i + 1)

----------------------------------------------------------------------------
(* The operations on a generated or retrieved instance *)

Call ==
    /\ pc = "idle"
    /\ calls < MaxCalls
    /\ calls' = calls + 1
    /\ pre' = wp
    /\ UNCHANGED <<pc, loc, lib, decoded_full>>

\* get_image_hash, lines 224-225
GetImageHash ==
    /\ Call
    /\ last' = IF IsSet(wp.full)
               THEN [Began("get_image_hash", held) EXCEPT
                                   !.ret = Some(Sha1(wp.full[1]))]
               ELSE [Began("get_image_hash", held) EXCEPT
                                   !.raised = "TypeError"]
    /\ UNCHANGED <<wp, held>>
    /\ Alone

\* lines 227-240 and 242-255: _get_waveplot_ptr (lines 144-153), the
\* resampling, the free, and the field set from the resampled values
GenerateResampled(op, field, width, height) ==
    /\ Call
    /\ IF IsSet(wp.full)
       THEN /\ wp' = [wp EXCEPT
                        ![field] = Some(Resample(wp.full[1], width, height))]
            /\ held' = held
            /\ last' = Began(op, held)
       ELSE /\ wp' = wp
            /\ held' = [held EXCEPT !.waveplot = @ + 1]
            /\ last' = [Began(op, held) EXCEPT !.raised = "TypeError"]
    /\ Alone

GeneratePreview ==
    GenerateResampled("generate_preview", "preview", PREVIEW_IMAGE_WIDTH,
                      PREVIEW_IMAGE_HEIGHT \div 2)

GenerateThumbnail ==
    GenerateResampled("generate_thumbnail", "thumbnail", THUMB_IMAGE_WIDTH,
                      THUMB_IMAGE_HEIGHT \div 2)

\* generate_sonic_hash, lines 257-264: the structure is not freed
GenerateSonicHash ==
    /\ Call
    /\ held' = [held EXCEPT !.waveplot = @ + 1]
    /\ IF IsSet(wp.full)
       THEN /\ wp' = [wp EXCEPT !.sonic_hash = Some(SonicHash(wp.full[1]))]
            /\ last' = [Began("generate_sonic_hash", held) EXCEPT
                                      !.ret = Some(SonicHash(wp.full[1]))]
       ELSE /\ wp' = wp
            /\ last' = [Began("generate_sonic_hash", held) EXCEPT
                                      !.raised = "TypeError"]
    /\ Alone

\* the order of the assignments of get, lines 276-292
GetOrder ==
    << <<"gid", "gid">>, <<"duration", "duration">>,
       <<"dr_level", "dr_level">>, <<"source_type", "source_type">>,
       <<"sample_rate", "sample_rate">>, <<"bit_depth", "bit_depth">>,
       <<"bit_rate", "bit_rate">>, <<"num_channels", "num_channels">>,
       <<"image_hash", "image_sha1">>, <<"thumbnail", "thumbnail">>,
       <<"sonic_hash", "sonic_hash">>, <<"version", "version">> >>

\* get, lines 266-294
Get(wp_uuid, meta, data) ==
    LET first == Request("GET", "/api/waveplot/{}", Some(wp_uuid), None)
        second == Request("GET", "/api/waveplot/{}/full", Some(wp_uuid), None)
        call == [Began("get", held) EXCEPT !.arg = Some(wp_uuid),
                               !.body = Some([meta |-> meta, data |-> data])]
        set == AssignFrom(wp, meta.obj, GetOrder, 1)
    IN  /\ Call
        /\ held' = held
        /\ IF ~meta.json
           THEN /\ wp' = wp
                /\ last' = [call EXCEPT !.sent = <<first>>,
                                        !.raised = "JSONDecodeError"]
           ELSE IF ~data.json
           THEN /\ wp' = wp
                /\ last' = [call EXCEPT !.sent = <<first, second>>,
                                        !.raised = "JSONDecodeError"]
           ELSE IF set.raised # "none"
           THEN /\ wp' = set.w
                /\ last' = [call EXCEPT !.sent = <<first, second>>,
                                        !.raised = set.raised]
           ELSE IF data.data = Absent
           THEN /\ wp' = set.w
                /\ last' = [call EXCEPT !.sent = <<first, second>>,
                                        !.raised = "KeyError"]
           ELSE IF ~B64Valid(data.data[1])
           THEN /\ wp' = set.w
                /\ last' = [call EXCEPT !.sent = <<first, second>>,
                                        !.raised = "TypeError"]
           ELSE /\ wp' = [set.w EXCEPT !.full = Some(B64Decode(data.data[1]))]
                /\ last' = [call EXCEPT !.sent = <<first, second>>]

\* the request body of upload, lines 299-310
UploadData(w, editor_key) ==
    [editor |-> editor_key,
     image |-> B64Encode(ZlibCompress(w.full[1])),
     dr_level |-> w.dr_level, duration |-> w.duration,
     source_type |-> w.source_type, sample_rate |-> w.sample_rate,
     bit_depth |-> w.bit_depth, bit_rate |-> w.bit_rate,
     num_channels |-> w.num_channels, version |-> w.version]

\* the success test with its bound off by one
IsSuccess_Mutant(status) == status <= 300

\* status_code < 300, line 321
IsSuccess(status) == status < 300

\* the duplicate test with another status code
IsDuplicate_Mutant(status) == status = 302

\* status_code == 303, line 326
IsDuplicate(status) == status = 303

\* the order of the assignments of upload on success, lines 322-325
UploadOrder ==
    << <<"gid", "gid">>, <<"image_hash", "image_hash">>,
       <<"thumbnail", "thumbnail">>, <<"sonic_hash", "sonic_hash">> >>

\* lines 321-329: the three branches on the status code.  data is the decoded
\* object, or, when the body did not decode, still the request's dict, which
\* has none of the keys read here.
UploadOutcome(w, status, data) ==
    IF IsSuccess(status)
    THEN AssignFrom(w, data, UploadOrder, 1) @@ [printed |-> <<>>]
    ELSE IF IsDuplicate(status)
    THEN AssignFrom(w, data, << <<"gid", "message">> >>, 1)
         @@ [printed |-> <<>>]
    ELSE [w |-> w, raised |-> "none", printed |-> <<ErrorLine(data)>>]

\* upload, lines 296-329
Upload(editor_key, status, body) ==
    LET call == [Began("upload", held) EXCEPT !.arg = Some(editor_key)]
        data == IF body.json THEN body.obj ELSE NoKeys
        out == UploadOutcome(wp, status, data)
    IN  /\ Call
        /\ held' = held
        /\ IF ~IsSet(wp.full)
           THEN /\ wp' = wp
                /\ last' = [call EXCEPT !.raised = "TypeError"]
           ELSE /\ wp' = out.w
                /\ last' =
                     [call EXCEPT
                        !.sent = <<Request("POST", "/api/waveplot", None,
                                           Some(UploadData(wp, editor_key)))>>,
                        !.status = Some(status),
                        !.body = Some(body),
                        !.raised = out.raised,
                        !.printed = Some((IF body.json THEN <<>>
                                          ELSE <<NoJSONLine>>) \o out.printed)]

\* data.update({'waveplot_uuid': self.gid}), line 335, on the caller's dict
WithUuid(metadata, gid) == [metadata EXCEPT !.waveplot_uuid = Some(gid)]

\* link, lines 331-347.  When the body did not decode, data is still the
\* caller's dict, which has no 'message'.
Link(metadata, status, body) ==
    LET data == WithUuid(metadata, wp.gid)
        answer == IF body.json THEN body.obj ELSE NoKeys
    IN  /\ Call
        /\ UNCHANGED <<wp, held>>
        /\ last' =
             [Began("link", held) EXCEPT
                !.arg = Some(metadata),
                !.argAfter = Some(data),
                !.sent = <<Request("POST", "/api/waveplot_context", None,
                                   Some(data))>>,
                !.status = Some(status),
                !.body = Some(body),
                !.printed = Some((IF body.json THEN <<>> ELSE <<NoJSONLine>>)
                                 \o (IF status >= 300
                                     THEN <<ErrorLine(answer)>> ELSE <<>>))]
        /\ Alone

Next ==
    \/ Generate
    \/ GetImageHash
    \/ GeneratePreview
    \/ GenerateThumbnail
    \/ GenerateSonicHash
    \/ \E id \in Wanted, meta \in MetaBodies, data \in DataBodies :
          Get(id, meta, data) /\ Alone
    \/ \E k \in Editors, s \in Statuses, b \in UploadBodies :
          Upload(k, s, b) /\ Alone
    \/ \E m \in Contexts, s \in LinkStatuses, b \in LinkBodies : Link(m, s, b)


Spec == Init /\ [][Next]_vars

----------------------------------------------------------------------------
(* The fixed-point scaling of generate over a wider range of native values *)

MaxFixedLen == 2

\* c_float values of w_ptr: 0.0, 0.5, the float nearest to 0.005, 1.0,
\* 511/512, 0.75, 1307/1024 (scaled to 255.27), 41/32 (256.25), 1.5 (300.0)
Half == [m |-> 1, e |-> 1]
Float0005 == [m |-> 10737418, e |-> 31]
FixedAmplitudes ==
    { [m |-> 0, e |-> 0], Half, Float0005, [m |-> 1, e |-> 0],
      [m |-> 511, e |-> 9], [m |-> 3, e |-> 2], [m |-> 1307, e |-> 10],
      [m |-> 41, e |-> 5], [m |-> 3, e |-> 1] }

RECURSIVE SeqsUpTo(_, _)
SeqsUpTo(S, n) ==
    IF n = 0 THEN { <<>> }
    ELSE LET shorter == SeqsUpTo(S, n - 1)
         IN  shorter \cup { Append(q, v) : q \in shorter, v \in S }

\* generate at line 189: the loop has ended and w_ptr holds the values
InitFixed ==
    /\ \E values \in SeqsUpTo(FixedAmplitudes, MaxFixedLen), info \in Infos :
          loc = [NoLocals EXCEPT !.info = Some(info), !.values = values,
                                 !.decoded = -1, !.blocks = Len(values),
                                 !.w_updates = Len(values),
                                 !.dr_blocks = Len(values)]
    /\ \E p \in AudioPaths :
          wp = [NewWavePlot EXCEPT !.path = Some(Abspath(p))]
    /\ held = [NoHeld EXCEPT !.file = 1, !.info = 1, !.waveplot = 1,
                             !.dr = 1, !.audio = 1]
    /\ pc = "finish"
    /\ lib \in LibVersions
    /\ pre = NewWavePlot
    /\ last = [Began("generate", NoHeld) EXCEPT !.raised = "running"]
    /\ decoded_full = None
    /\ calls = 1
    /\ other = NewWavePlot
    /\ registry = <<>>
    /\ uploads = <<>>

NextFixed == \E r \in Ratings : GenerateFinish(r)

SpecFixed == InitFixed /\ [][NextFixed]_vars

----------------------------------------------------------------------------
(* Two instances of one caller against a registry that stores what is      *)
(* uploaded, keeps one entry per full sequence, and serves what it stored   *)

MaxFullLen == 3

\* c_float values of w_ptr that scale to the bytes 0, 100 and 255
RegistryAmplitudes ==
    { [m |-> 0, e |-> 0], Half, [m |-> 1307, e |-> 10] }

\* editor keys the registry accepts
RegistryEditors == {"ed1", "ed2"}

\* the registry's inflate of the stream upload sends
ZlibDecompress(z) == SubSeq(z, 5, 4 + z[4])

\* the entries of the registry that hold the sequence full
Holding(reg, full) == { k \in 1..Len(reg) : reg[k].full = full }

\* the entries of the registry under the identifier uuid
Under(reg, uuid) == { k \in 1..Len(reg) : reg[k].gid = uuid }

\* an identifier the registry has not given out
FreshId(reg) == CHOOSE id \in Ids : Under(reg, id) = {}

\* the registry's handling of POST /api/waveplot: 303 and the identifier of
\* the entry that holds the same sequence, or a new entry and its identifier
RegistryPost(reg, data) ==
    LET full == ZlibDecompress(B64Decode(data.image))
        same == Holding(reg, full)
    IN  IF same # {}
        THEN [status |-> 303,
              body |-> Message(reg[CHOOSE k \in same : TRUE].gid),
              registry |-> reg]
        ELSE [status |-> 200,
              body |-> Created(FreshId(reg)),
              registry |-> Append(reg, [gid |-> FreshId(reg), full |-> full,
                                        data |-> data])]

\* the registry's answer to GET /api/waveplot/{}
RegistryMeta(reg, uuid) ==
    IF Under(reg, uuid) = {}
    THEN [json |-> TRUE, obj |-> NoMeta]
    ELSE LET entry == reg[CHOOSE k \in Under(reg, uuid) : TRUE]
         IN  [json |-> TRUE,
              obj |-> [Stored(uuid).obj EXCEPT
                         !.duration = entry.data.duration,
                         !.dr_level = entry.data.dr_level,
                         !.source_type = entry.data.source_type,
                         !.sample_rate = entry.data.sample_rate,
                         !.bit_depth = entry.data.bit_depth,
                         !.bit_rate = entry.data.bit_rate,
                         !.num_channels = entry.data.num_channels,
                         !.version = entry.data.version]]

\* the registry's answer to GET /api/waveplot/{}/full
RegistryData(reg, uuid) ==
    IF Under(reg, uuid) = {}
    THEN [json |-> TRUE, data |-> Absent]
    ELSE [json |-> TRUE,
          data |-> Some(B64Encode(reg[CHOOSE k \in Under(reg, uuid) :
                                          TRUE].full))]

\* an instance on which generate has returned, lines 197-216
Generated(values) ==
    LET info == CHOOSE i \in Infos : TRUE
        rating == CHOOSE r \in Ratings : TRUE
        path == Abspath(CHOOSE p \in AudioPaths : TRUE)
    IN  Populated([NewWavePlot EXCEPT !.path = Some(path)], info, rating,
                  values, "DAMSON")

\* generate has returned on wp; the second instance is new, or generate has
\* returned on it too, for the same file or for another one
InitRegistry ==
    /\ \E values \in SeqsUpTo(RegistryAmplitudes, MaxFullLen) :
          /\ wp = Generated(values)
          /\ other \in { NewWavePlot, Generated(values), Generated(<<Half>>) }
          /\ last = [Began("generate", NoHeld) EXCEPT
                                  !.finish = Some(-1),
                                  !.native = Some(values)]
          /\ decoded_full = Some(FullOf(values))
    /\ held = NoHeld
    /\ pc = "idle"
    /\ loc = NoLocals
    /\ lib = "DAMSON"
    /\ pre = NewWavePlot
    /\ calls = 0
    /\ registry = <<>>
    /\ uploads = <<>>

\* upload, lines 296-329, answered by the registry
RegisteredUpload(editor_key) ==
    LET answer == IF IsSet(wp.full)
                  THEN RegistryPost(registry, UploadData(wp, editor_key))
                  ELSE [status |-> 404, body |-> NotJSON,
                        registry |-> registry]
    IN  /\ Upload(editor_key, answer.status, answer.body)
        /\ registry' = answer.registry
        /\ uploads' = IF IsSet(wp.full)
                      THEN Append(uploads,
                                  [editor |-> editor_key,
                                   full |-> wp.full[1],
                                   status |-> answer.status,
                                   raised |-> last'.raised,
                                   printed |-> last'.printed,
                                   gid |-> wp'.gid])
                      ELSE uploads
        /\ other' = other

\* get, lines 266-294, answered by the registry
RegisteredGet(wp_uuid) ==
    /\ Get(wp_uuid, RegistryMeta(registry, wp_uuid),
           RegistryData(registry, wp_uuid))
    /\ Alone

\* the caller goes on with its other instance
Turn ==
    /\ pc = "idle"
    /\ wp' = other
    /\ other' = wp
    /\ pre' = other
    /\ last' = Began("turn", held)
    /\ UNCHANGED <<held, pc, loc, lib, decoded_full, calls, registry,
                   uploads>>

NextRegistry ==
    \/ \E k \in RegistryEditors : RegisteredUpload(k)
    \/ \E id \in Ids : RegisteredGet(id)
    \/ Turn

SpecRegistry == InitRegistry /\ [][NextRegistry]_vars

----------------------------------------------------------------------------
(* The claims *)

Returned == pc = "idle"

\* C1: when a generate call returns or raises, every native structure
\* allocated during the call has been freed, so the number of structures
\* held is what it was when the call began.
C1_GenerateFreesOnEveryExit ==
    (Returned /\ last.op = "generate") => HeldTotal(held) = last.held0

\* C2: a negative result of get_samples aborts generate: finish_waveplot and
\* finish_dr are not run after it, and full, duration and dr_level are not
\* set from that run.
C2_NegativePullAborts ==
    (Returned /\ last.op = "generate" /\ IsSet(last.finish))
        => last.finish[1] >= 0

\* the last call was an upload whose request was answered
Answered(op) == last.op = op /\ last.sent # <<>>

LastLine == last.printed[1][Len(last.printed[1])]

\* C3: upload has three outcomes, told apart by the status alone.  Below 300,
\* gid, image_hash, thumbnail and sonic_hash are those of the response; at
\* 303 gid alone is set, to the identifier the response gives; at any other
\* status no field changes, an unset gid stays unset, and the line printed
\* carries the server's message, or 'Unknown' when it gave none.
C3_UploadThreeOutcomes ==
    Answered("upload") =>
        LET status == last.status[1]
            body == last.body[1]
            obj == body.obj
        IN  /\ (status < 300 /\ body.json /\ IsSet(obj.gid)
                /\ IsSet(obj.image_hash) /\ IsSet(obj.thumbnail)
                /\ IsSet(obj.sonic_hash))
                 => /\ last.raised = "none"
                    /\ wp = [pre EXCEPT !.gid = obj.gid,
                                        !.image_hash = obj.image_hash,
                                        !.thumbnail = obj.thumbnail,
                                        !.sonic_hash = obj.sonic_hash]
            /\ (status = 303 /\ body.json /\ IsSet(obj.message))
                 => /\ last.raised = "none"
                    /\ wp = [pre EXCEPT !.gid = obj.message]
            /\ (status >= 300 /\ status # 303)
                 => /\ last.raised = "none"
                    /\ wp = pre
                    /\ (pre.gid = None => wp.gid = None)
                    /\ LastLine.prefix = "Error: "
                    /\ LastLine.text =
                         IF body.json /\ IsSet(obj.message)
                         THEN obj.message[1] ELSE "Unknown"

\* C3, witnesses: each of the three outcomes has happened to a generated
\* instance: a registration adopted, a duplicate adopted, a rejection.
C3_Witness ==
    /\ Answered("upload")
    /\ last.status = Some(200) /\ pre.gid = None /\ wp.gid = Some("id1")
    /\ wp.sonic_hash = Some(4242)

C3_WitnessDuplicate ==
    /\ Answered("upload")
    /\ last.status = Some(303) /\ pre.gid = None /\ wp.gid = Some("id2")

C3_WitnessRejected ==
    /\ Answered("upload")
    /\ last.status = Some(300) /\ last.body = Some(Created("id1"))
    /\ wp.gid = None

\* the body of the last answer did not decode as JSON
Malformed ==
    /\ last.sent # <<>>
    /\ \/ last.op \in {"upload", "link"} /\ ~last.body[1].json
       \/ last.op = "get" /\ (~last.body[1].meta.json \/ ~last.body[1].data.json)

\* C4: get, upload and link given a body that is not JSON raise nothing into
\* the caller and leave gid as it was before the call.
C4_MalformedBodyTolerated ==
    Malformed => (last.raised = "none" /\ wp.gid = pre.gid)

\* C5: generate populates atomically: when it has returned or raised, either
\* it set duration, dr_level, source_type, sample_rate, bit_depth, bit_rate,
\* num_channels, version and full, or it changed no field, path included.
C5_GenerateAtomic ==
    (Returned /\ last.op = "generate") =>
        \/ wp = pre
        \/ /\ last.raised = "none"
           /\ \A f \in {"duration", "dr_level", "source_type", "sample_rate",
                        "bit_depth", "bit_rate", "num_channels", "version",
                        "full"} : IsSet(wp[f])

\* C6: gid is assigned once: a call that began with gid set leaves it as it
\* was, and a gid that is set is an identifier a response supplied.
C6_GidAssignedOnce ==
    /\ IsSet(pre.gid) => wp.gid = pre.gid
    /\ (IsSet(wp.gid) /\ wp.gid # pre.gid)
         => /\ last.op \in {"get", "upload"}
            /\ last.sent # <<>>

\* C7: the full sequence a successful generate set is the instance's full
\* sequence from then on, whatever is called later.
C7_FullImmutable ==
    IsSet(decoded_full) => wp.full = decoded_full

\* C8: upload changes at most gid, image_hash, thumbnail and sonic_hash;
\* link changes no field and leaves the caller's context mapping as it was.
C8_SyncFrame ==
    /\ last.op = "upload"
         => wp = [pre EXCEPT !.gid = wp.gid, !.image_hash = wp.image_hash,
                             !.thumbnail = wp.thumbnail,
                             !.sonic_hash = wp.sonic_hash]
    /\ last.op = "link" => (wp = pre /\ last.argAfter = last.arg)

\* C9: a stage called without its prerequisite ends in an error, sends no
\* request and changes no field: the stages that read full when full is
\* unset, and link when gid is unset.
C9_PrerequisiteEnforced ==
    /\ (last.op \in {"get_image_hash", "generate_preview",
                     "generate_thumbnail", "generate_sonic_hash", "upload"}
        /\ ~IsSet(pre.full))
         => (last.raised # "none" /\ last.sent = <<>> /\ wp = pre)
    /\ (last.op = "link" /\ ~IsSet(pre.gid))
         => (last.raised # "none" /\ last.sent = <<>> /\ wp = pre)

\* C10: after a get that returned, every data field is that of the retrieved
\* entity: the fields of the metadata record, the decoded full sequence, and
\* a preview that, when set, is the preview of the retrieved full sequence
\* and not one kept from before the call.
C10_GetPopulatesEveryField ==
    (last.op = "get" /\ last.raised = "none") =>
        LET meta == last.body[1].meta.obj
            data == last.body[1].data.data[1]
        IN  /\ wp.gid = meta.gid
            /\ wp.duration = meta.duration
            /\ wp.dr_level = meta.dr_level
            /\ wp.source_type = meta.source_type
            /\ wp.sample_rate = meta.sample_rate
            /\ wp.bit_depth = meta.bit_depth
            /\ wp.bit_rate = meta.bit_rate
            /\ wp.num_channels = meta.num_channels
            /\ wp.image_hash = meta.image_sha1
            /\ wp.thumbnail = meta.thumbnail
            /\ wp.sonic_hash = meta.sonic_hash
            /\ wp.version = meta.version
            /\ wp.full = Some(B64Decode(data))
            /\ IsSet(wp.preview)
                 => wp.preview = Some(Resample(wp.full[1], PREVIEW_IMAGE_WIDTH,
                                               PREVIEW_IMAGE_HEIGHT \div 2))

\* C15: in the loop of generate a zero result of get_samples updates neither
\* accumulator and is followed by the next pull, with nothing raised; a
\* positive result is followed by one update_waveplot and then one update_dr
\* of that block, both before the next pull.
C15_LoopUpdatesPerBlock ==
    /\ pc = "update_waveplot"
          => /\ loc.decoded > 0
             /\ loc.w_updates = loc.blocks - 1
             /\ loc.dr_blocks = loc.blocks - 1
    /\ pc = "update_dr"
          => /\ loc.decoded > 0
             /\ loc.w_updates = loc.blocks
             /\ loc.dr_blocks = loc.blocks - 1
    /\ pc \in {"pull", "finish"}
          => /\ loc.w_updates = loc.blocks
             /\ loc.dr_blocks = loc.blocks
             /\ Len(loc.values) = loc.blocks
             /\ last.raised = "running"
    /\ (pc = "pull" /\ loc.blocks > 0) => loc.decoded >= 0
    /\ pc = "finish" => loc.decoded < 0

\* C15, witness: a zero result was pulled after a block had been accumulated
\* by both, and the loop is at its next pull.
C15_Witness ==
    /\ pc = "pull"
    /\ loc.decoded = 0
    /\ loc.blocks = 1 /\ loc.w_updates = 1 /\ loc.dr_blocks = 1

\* C14: preview is unset or has 400 samples and thumbnail is unset or has
\* 50 samples, whatever sequence of generate, generate_preview,
\* generate_thumbnail, get and upload was called.
C14_FixedWidths ==
    /\ IsSet(wp.preview) => Len(wp.preview[1]) = 400
    /\ IsSet(wp.thumbnail) => Len(wp.thumbnail[1]) = 50

\* C16: after a generate that returned, version is one of WAVEPLOT_VERSIONS,
\* whatever the library reports, and an upload submits no other version.
C16_VersionSupported ==
    /\ (Returned /\ last.op = "generate" /\ last.raised = "none")
          => (IsSet(wp.version) /\ wp.version[1] \in WAVEPLOT_VERSIONS)
    /\ Answered("upload")
          => \A i \in 1..Len(last.sent) :
                /\ IsSet(last.sent[i].payload[1].version)
                /\ last.sent[i].payload[1].version[1] \in WAVEPLOT_VERSIONS

\* C17: generate_preview, generate_thumbnail and generate_sonic_hash called
\* on an instance whose full sequence is set hold no more native structures
\* when they return than when they began.
C17_DerivedStagesFree ==
    (last.op \in {"generate_preview", "generate_thumbnail",
                  "generate_sonic_hash"} /\ IsSet(pre.full))
        => HeldTotal(held) = last.held0

\* the byte b is the float v = m / 2^e scaled by 200 and truncated:
\* b <= 200 * v < b + 1
Truncated(b, v) ==
    IF v.e >= 3
    THEN b * Pow2(v.e - 3) <= 25 * v.m /\ 25 * v.m < (b + 1) * Pow2(v.e - 3)
    ELSE b * Pow2(v.e) <= 200 * v.m /\ 200 * v.m < (b + 1) * Pow2(v.e)

\* a generate that returned after reading the native values
Scaled == Returned /\ last.op = "generate" /\ last.raised = "none"

\* C13, as claimed: a generate that returned stored, for every native value,
\* the byte that is 200 times the value truncated, a byte in 0..255; 0.5 is
\* stored as 100 and 0.005 as 1.
C13_FixedPointAsClaimed ==
    Scaled =>
        /\ Len(wp.full[1]) = Len(last.native[1])
        /\ \A x \in 1..Len(wp.full[1]) :
              LET b == wp.full[1][x]
                  v == last.native[1][x]
              IN  /\ b \in 0..255
                  /\ Truncated(b, v)
                  /\ v = Half => b = 100
                  /\ v = Float0005 => b = 1

\* C13, amended: as claimed, except that 0.005 reaches generate as the
\* c_float nearest to it, which is stored as 0; and when a native value
\* scales to no byte, generate raises ValueError and stores no sequence.
C13_FixedPoint ==
    /\ Scaled =>
          /\ Len(wp.full[1]) = Len(last.native[1])
          /\ \A x \in 1..Len(wp.full[1]) :
                LET b == wp.full[1][x]
                    v == last.native[1][x]
                IN  /\ b \in 0..255
                    /\ Truncated(b, v)
                    /\ v = Half => b = 100
                    /\ v = Float0005 => b = 0
    /\ (Returned /\ last.op = "generate" /\ last.raised = "ValueError")
          => /\ wp.full = pre.full
             /\ \E x \in 1..Len(last.native[1]) :
                   \A b \in 0..255 : ~Truncated(b, last.native[1][x])

\* C13, witness: generate returned having stored 0 for the float nearest to
\* 0.005 and 199 for 511/512, which rounding would store as 1 and 200.
C13_Witness ==
    /\ Scaled
    /\ last.native = Some(<<Float0005, [m |-> 511, e |-> 9]>>)
    /\ wp.full = Some(<<0, 199>>)

\* C11: when a sequence that an earlier upload registered is uploaded again
\* under another editor key, the later upload is answered with 303, is not
\* treated as a failure (nothing is raised, no error line is printed), and
\* leaves the instance's gid equal to the gid the earlier upload obtained.
C11_DuplicateRegistration ==
    \A i, j \in 1..Len(uploads) :
        ( /\ i < j
          /\ uploads[i].status < 300
          /\ uploads[i].full = uploads[j].full
          /\ uploads[i].editor # uploads[j].editor )
        => /\ uploads[j].status = 303
           /\ uploads[j].raised = "none"
           /\ uploads[j].printed = Some(<<>>)
           /\ IsSet(uploads[i].gid)
           /\ uploads[j].gid = uploads[i].gid

\* C11, witness: two instances with the same full sequence were uploaded one
\* after the other under different keys, and both now carry the first gid.
C11_Witness ==
    /\ Returned /\ last.op = "upload" /\ last.status = Some(303)
    /\ Len(uploads) = 2
    /\ uploads[1].status < 300
    /\ uploads[1].editor # uploads[2].editor
    /\ uploads[1].full = uploads[2].full
    /\ Len(uploads[1].full) = 3
    /\ IsSet(wp.gid) /\ wp.gid = other.gid /\ wp.gid = uploads[1].gid

\* the uploads that registered a sequence and obtained the identifier uuid
RegisteredAs(uuid) ==
    { k \in 1..Len(uploads) :
        uploads[k].status < 300 /\ uploads[k].gid = Some(uuid) }

\* C12: a get with the identifier an upload obtained returns with a full
\* sequence byte-identical to the one uploaded, so that the image hash of
\* the retrieved instance equals the image hash of the local one.
C12_RoundTrip ==
    (Returned /\ last.op = "get") =>
        \A k \in RegisteredAs(last.arg[1]) :
            /\ last.raised = "none"
            /\ wp.full = Some(uploads[k].full)
            /\ Sha1(wp.full[1]) = Sha1(uploads[k].full)

\* C12, witness: a new instance retrieved a sequence of three bytes that the
\* other instance uploaded.
C12_Witness ==
    /\ Returned /\ last.op = "get" /\ last.raised = "none"
    /\ pre = NewWavePlot
    /\ RegisteredAs(last.arg[1]) # {}
    /\ wp.full = other.full
    /\ wp.full = Some(<<255, 100, 0>>)
    /\ other.gid = last.arg

====
